---- MODULE Spec2Model ----
(***************************************************************************)
(* Model of "Chapter 08/graph_surrogate.py": uniform_shuffle and           *)
(* fourier_constrained_shuffle (AAFT surrogates).                          *)
(*                                                                         *)
(* Arrays are functions on 0..n-1, so that every index of the model is the *)
(* index the Python source writes.  A matrix is an array of rows; its      *)
(* shape is kept next to it, as numpy does, because a matrix without rows  *)
(* still has a number of columns.                                          *)
(*                                                                         *)
(* Floating point values are integers.  Angles are counted in quarter      *)
(* turns (PI = 2).  The transforms np.fft.fft / np.fft.ifft are not        *)
(* computable over the integers: the forward transform is exact in the     *)
(* two real bins (0 and n2) and a choice over a bounded set in the others, *)
(* the inverse transform is a choice over a bounded set of real series.    *)
(* The code after each transform reads its result only by position         *)
(* (indexing, slicing) and by order (argsort).                             *)
(***************************************************************************)
EXTENDS Integers, Sequences, FiniteSets, TLC

VARIABLES pc, fn, xV, xShape, flag, ii, lst, zM, rfiV, usedPhase, oxV,
          magnV, fiV, nfiV, tmpV, yftV, iyftV, ret, retShape, err, draws

vars == <<pc, fn, xV, xShape, flag, ii, lst, zM, rfiV, usedPhase, oxV,
          magnV, fiV, nfiV, tmpV, yftV, iyftV, ret, retShape, err, draws>>

\* ---------------------------------------------------------------- bounds
MaxT == 5
MaxN == 2
MaxCells == 8
MaxLen1D == 1

\* ------------------------------------------------------------- constants
PI == 2

\* ---------------------------------------------------------------- arrays
Size(a) == Cardinality(DOMAIN a)

EmptyArr == [k \in {} |-> 0]

Single(v) == [k \in 0..0 |-> v]

\* np.append(a, b)
Concat(a, b) ==
  [k \in 0..(Size(a) + Size(b) - 1) |->
     IF k < Size(a) THEN a[k] ELSE b[k - Size(a)]]

\* a[::-1]
Reverse(a) == [k \in DOMAIN a |-> a[Size(a) - 1 - k]]

\* -a
Neg(a) == [k \in DOMAIN a |-> 0 - a[k]]

Min(x, y) == IF x < y THEN x ELSE y

\* a[:stop]  (stop >= 0; numpy clips the slice to the array)
SliceUpTo(a, stop) == [k \in 0..(Min(stop, Size(a)) - 1) |-> a[k]]

\* a[start:stop:-1]  (start, stop >= 0): a[start], a[start-1], ..., a[stop+1]
SliceDown(a, start, stop) ==
  LET s0 == Min(start, Size(a) - 1)
  IN  [k \in 0..(s0 - stop - 1) |-> a[s0 - k]]

\* the j-th item of the iteration over xV.T
Column(x, T, j) == [i \in 0..(T - 1) |-> x[i][j]]

\* ---------------------------------------------------------------- sorting
\* np.argsort: every index order that sorts a (the default sort is not
\* stable, the order of equal elements is unspecified)
ArgsortResults(a) ==
  {p \in Permutations(DOMAIN a) :
     \A k \in DOMAIN a : (k + 1) \in DOMAIN a => a[p[k]] <= a[p[k + 1]]}

\* the number of elements that a stable sort puts before a[i]
Before(a, i) ==
  Cardinality({j \in DOMAIN a : a[j] < a[i] \/ (a[j] = a[i] /\ j < i)})

\* np.argsort of an array without repeated values (a permutation): the one
\* index order that sorts it
Argsort(a) == [k \in DOMAIN a |-> CHOOSE i \in DOMAIN a : Before(a, i) = k]

\* np.sort
Sort(a) == LET p == Argsort(a) IN [k \in DOMAIN a |-> a[p[k]]]

\* ----------------------------------------------------------------- inputs
Patterns == {"zigzag", "ties", "const"}

ChannelValue(p, i) ==
  CASE p = "zigzag" -> IF i % 2 = 0 THEN 10 + i ELSE i
    [] p = "ties"   -> i % 2
    [] OTHER        -> 7

Shapes2D ==
  {s \in (0..MaxT) \X (0..MaxN) : s[1] * s[2] <= MaxCells}

Inputs2D ==
  UNION {{[shape |-> s,
           data  |-> [i \in 0..(s[1] - 1) |->
                        [j \in 0..(s[2] - 1) |-> ChannelValue(q[j], i)]]] :
          q \in [0..(s[2] - 1) -> Patterns]} : s \in Shapes2D}

Inputs1D ==
  {[shape |-> <<l>>, data |-> [k \in 0..(l - 1) |-> k + 1]] : l \in 0..MaxLen1D}

Inputs == Inputs2D \cup Inputs1D

ndim == Len(xShape)

\* ------------------------------------------------------------ random source
\* T indices drawn with replacement in the place of a permutation
RandomPermutation_Choice(T) == [0..(T - 1) -> 0..(T - 1)]

\* np.random.permutation(T)
RandomPermutation(T) == Permutations(0..(T - 1))

NoiseVals == {-1, 1}

\* np.random.randn(n)
Randn(n) == [0..(n - 1) -> NoiseVals]

RandPhases == {1, 3}

\* np.random.rand(k) * 2 * np.pi
RandPhaseVector(k) == [0..(k - 1) -> RandPhases]

\* np.std(x, ddof=1), up to a positive factor: 0 exactly when the channel is
\* constant.  (For fewer than two samples numpy gives nan; the transform of
\* such a channel raises before it reads a sample.)
Std(a) == IF \A i, k \in DOMAIN a : a[i] = a[k] THEN 0 ELSE 1

\* a * c
Scale(a, c) == [k \in DOMAIN a |-> a[k] * c]

\* owV[ixV]
Take(a, idx) == [k \in DOMAIN idx |-> a[idx[k]]]

\* lines 76-83: every value yV can take for the channel x: the sorted white
\* noise, put in the rank order of x
RankMatchedNoise(x) ==
  UNION {{Take(owV, ixV) : ixV \in {Argsort(T) : T \in ArgsortResults(x)}} :
         owV \in {Sort(Scale(g, c)) : g \in Randn(Size(x)), c \in {Std(x)}}}

\* --------------------------------------------------------------- transforms
RECURSIVE SumTo(_, _)
SumTo(a, m) == IF m = 0 THEN 0 ELSE SumTo(a, m - 1) + a[m - 1]

Alternate(a) == [k \in DOMAIN a |-> IF k % 2 = 0 THEN a[k] ELSE 0 - a[k]]

Abs(v) == IF v < 0 THEN 0 - v ELSE v

\* np.angle of a real number
AngleReal(v) == IF v < 0 THEN PI ELSE 0

\* magnitude and angle of a bin that is not real
InteriorBins == {<<1, 1>>, <<2, -1>>}

IsZero(a) == \A k \in DOMAIN a : a[k] = 0

\* the bins of a transform of length m = 2*n2 whose bins 0 and n2 are the
\* real numbers x0 and xn and whose bins 1..n2-1 are h, as magnitude and
\* phase per bin; bins n2+1..m-1 are the complex conjugates of 1..n2-1
Spectrum(x0, xn, h, m) ==
  LET n2 == m \div 2
  IN  [magn  |-> [k \in 0..(m - 1) |->
                    IF k = 0 THEN Abs(x0)
                    ELSE IF k = n2 THEN Abs(xn)
                    ELSE IF k < n2 THEN h[k][1] ELSE h[m - k][1]],
       phase |-> [k \in 0..(m - 1) |->
                    IF k = 0 THEN AngleReal(x0)
                    ELSE IF k = n2 THEN AngleReal(xn)
                    ELSE IF k < n2 THEN h[k][2] ELSE 0 - h[m - k][2]]]

\* np.fft.fft(yV, m) for m = 2*n2 >= 2.  Bin 0 is the sum and bin n2 the
\* alternating sum of the first m samples; bins 1..n2-1 are a choice.  The
\* transform of the zero series is zero.
ForwardSpectra(yV, m) ==
  IF IsZero(yV)
  THEN {[magn |-> [k \in 0..(m - 1) |-> 0], phase |-> [k \in 0..(m - 1) |-> 0]]}
  ELSE UNION {{Spectrum(x[1], x[2], h, m) :
                 h \in [1..((m \div 2) - 1) -> InteriorBins]} :
              x \in {<<SumTo(yV, m), SumTo(Alternate(yV), m)>>}}

\* np.real(np.fft.ifft(tmpV, n)) for the spectrum of magnitudes magn: the
\* zero series for the zero spectrum; otherwise a choice among the series of
\* n different values and the series with two levels, c (1 <= c <= n) low
\* samples first.
InverseSeries(magn, n) ==
  IF IsZero(magn)
  THEN {[k \in 0..(n - 1) |-> 0]}
  ELSE Permutations(0..(n - 1))
         \cup {[k \in 0..(n - 1) |-> IF k < c THEN 0 ELSE 1] : c \in 1..n}

\* ------------------------------------------------------- pieces of the code
\* line 71: rfiV = None.  None is <<>>, a drawn vector r is <<r>>.
None == <<>>

\* np.zeros_like(xV)
ZerosLike(shape) ==
  IF Len(shape) = 2
  THEN [i \in 0..(shape[1] - 1) |-> [j \in 0..(shape[2] - 1) |-> 0]]
  ELSE [k \in 0..(shape[1] - 1) |-> 0]

\* the number of items of the iteration over xV.T
NumItems == IF ndim = 2 THEN xShape[2] ELSE xShape[1]

\* xV[p] for an index array p: the rows of xV in the order p
TakeRows(x, p) == [i \in DOMAIN p |-> x[p[i]]]

\* np.array(l) without the transposition
ArrayT_Untransposed(l) ==
  IF Size(l) = 0
  THEN [shape |-> <<0>>, data |-> EmptyArr]
  ELSE [shape |-> <<Size(l), Size(l[0])>>, data |-> l]

\* np.array(l).T for a list of equally long arrays
ArrayT(l) ==
  IF Size(l) = 0
  THEN [shape |-> <<0>>, data |-> EmptyArr]
  ELSE [shape |-> <<Size(l[0]), Size(l)>>,
        data  |-> [i \in 0..(Size(l[0]) - 1) |->
                     [j \in 0..(Size(l) - 1) |-> l[j][i]]]]

\* lines 90-94 drawing for every channel, whatever fixed_phase is
NeedsPhaseDraw_Always(fixed_phase, r) == TRUE

\* lines 90-94 drawing only while there is no vector, whatever fixed_phase is
NeedsPhaseDraw_OnlyFirst(fixed_phase, r) == r = None

\* lines 90-94: whether this channel draws a free-phase vector
NeedsPhaseDraw(fixed_phase, r) == (~fixed_phase) \/ (r = None)

\* lines 95-97
NewPhase(r, f, n2) ==
  Concat(Concat(Concat(Single(0), r), Single(f[n2 + 1])), Neg(Reverse(r)))

\* line 98 with the mirrored part starting at bin n2
NewMagnitude_FromNyquist(m, n2) ==
  Concat(SliceUpTo(m, n2 + 1), SliceDown(m, n2, 0))

\* line 98
NewMagnitude(m, n2) == Concat(SliceUpTo(m, n2 + 1), SliceDown(m, n2 - 1, 0))

\* line 105 with T2 itself in the place of its ranks
RankOf_Unranked(p) == p

\* line 105: iyftV = np.argsort(T2), the rank of every sample
RankOf(p) == Argsort(p)

\* line 106: oxV[iyftV]
ImposeAmplitudes(o, r) == [i \in DOMAIN r |-> o[r[i]]]

\* line 106 writing every channel to column 0
SetColumn_First(z, j, col) == [i \in DOMAIN z |-> [z[i] EXCEPT ![0] = col[i]]]

\* zM[:, j] = col
SetColumn(z, j, col) == [i \in DOMAIN z |-> [z[i] EXCEPT ![j] = col[i]]]

\* ------------------------------------------------------------------- Init
Init ==
  /\ pc = "idle"
  /\ fn = "none"
  /\ xV = EmptyArr
  /\ xShape = <<>>
  /\ flag = FALSE
  /\ ii = 0
  /\ lst = EmptyArr
  /\ zM = EmptyArr
  /\ rfiV = None
  /\ usedPhase = <<>>
  /\ oxV = EmptyArr
  /\ magnV = EmptyArr
  /\ fiV = EmptyArr
  /\ nfiV = EmptyArr
  /\ tmpV = EmptyArr
  /\ yftV = EmptyArr
  /\ iyftV = EmptyArr
  /\ ret = EmptyArr
  /\ retShape = <<>>
  /\ err = "none"
  /\ draws = <<>>

channelLocals == <<oxV, magnV, fiV, nfiV, tmpV, yftV, iyftV>>

\* ---------------------------------------------------------- uniform_shuffle
\* a call uniform_shuffle(xV, fixed_order)
CallUniform ==
  /\ pc = "idle"
  /\ \E in \in Inputs, b \in BOOLEAN :
       /\ xV' = in.data
       /\ xShape' = in.shape
       /\ flag' = b
  /\ fn' = "uniform_shuffle"
  /\ pc' = "u_shape"
  /\ rfiV' = None
  /\ UNCHANGED <<ii, lst, zM, usedPhase, channelLocals, ret, retShape, err, draws>>

\* line 30: T, N = xV.shape, and the branch of line 31
US_Shape ==
  /\ pc = "u_shape"
  /\ IF ndim # 2
     THEN pc' = "raised" /\ err' = "ValueError"
     ELSE pc' = (IF flag THEN "u_fixed" ELSE "u_free") /\ err' = err
  /\ UNCHANGED <<fn, xV, xShape, flag, ii, lst, zM, rfiV, usedPhase,
                 channelLocals, ret, retShape, draws>>

\* line 32: return xV[np.random.permutation(T)]
US_Fixed ==
  /\ pc = "u_fixed"
  /\ \E p \in RandomPermutation(xShape[1]) :
       ret' = TakeRows(xV, p)
  /\ retShape' = xShape
  /\ draws' = Append(draws, <<"permutation", xShape[1]>>)
  /\ pc' = "returned"
  /\ UNCHANGED <<fn, xV, xShape, flag, ii, lst, zM, rfiV, usedPhase,
                 channelLocals, err>>

\* line 34: one item of the list [np.random.permutation(x) for x in xV.T]
US_FreeDraw ==
  /\ pc = "u_free"
  /\ ii < xShape[2]
  /\ LET x == Column(xV, xShape[1], ii)
     IN  \E p \in RandomPermutation(Size(x)) :
           lst' = Concat(lst, Single(TakeRows(x, p)))
  /\ draws' = Append(draws, <<"permutation", xShape[1]>>)
  /\ ii' = ii + 1
  /\ UNCHANGED <<pc, fn, xV, xShape, flag, zM, rfiV, usedPhase,
                 channelLocals, ret, retShape, err>>

\* lines 34-35: return np.array([...]).T
US_FreeReturn ==
  /\ pc = "u_free"
  /\ ii = xShape[2]
  /\ ret' = ArrayT(lst).data
  /\ retShape' = ArrayT(lst).shape
  /\ pc' = "returned"
  /\ UNCHANGED <<fn, xV, xShape, flag, ii, lst, zM, rfiV, usedPhase,
                 channelLocals, err, draws>>

\* ----------------------------------------------- fourier_constrained_shuffle
\* a call fourier_constrained_shuffle(xV, fixed_phase), lines 70-71
CallAAFT ==
  /\ pc = "idle"
  /\ \E in \in Inputs, b \in BOOLEAN :
       /\ xV' = in.data
       /\ xShape' = in.shape
       /\ flag' = b
       /\ zM' = ZerosLike(in.shape)
  /\ fn' = "fourier_constrained_shuffle"
  /\ rfiV' = None
  /\ pc' = "a_loop"
  /\ UNCHANGED <<ii, lst, usedPhase, channelLocals, ret, retShape, err, draws>>

\* lines 73-89: the ranks of the channel, the rank-ordered white noise and
\* its forward transform
AAFT_Forward ==
  /\ pc = "a_loop"
  /\ ii < NumItems
  /\ IF ndim # 2
     THEN \* line 75: len() of a scalar
          /\ pc' = "raised"
          /\ err' = "TypeError"
          /\ UNCHANGED <<oxV, magnV, fiV, draws>>
     ELSE LET xV_ == Column(xV, xShape[1], ii)
              n   == xShape[1]
              n2  == n \div 2
          IN  /\ oxV' = Sort(xV_)
              /\ draws' = Append(draws, <<"randn", n>>)
              /\ IF 2 * n2 = 0
                 THEN \* line 87: a transform of length 0
                      /\ pc' = "raised"
                      /\ err' = "ValueError"
                      /\ UNCHANGED <<magnV, fiV>>
                 ELSE \E yV \in RankMatchedNoise(xV_) :
                        \E sp \in ForwardSpectra(yV, 2 * n2) :
                          /\ magnV' = sp.magn
                          /\ fiV' = sp.phase
                          /\ pc' = "a_phase"
                          /\ err' = err
  /\ UNCHANGED <<fn, xV, xShape, flag, ii, lst, zM, rfiV, usedPhase,
                 nfiV, tmpV, yftV, iyftV, ret, retShape>>

\* lines 90-99: the free phases and the new spectrum
AAFT_Phase ==
  /\ pc = "a_phase"
  /\ LET n2   == xShape[1] \div 2
         draw == NeedsPhaseDraw(flag, rfiV)
     IN  \E r \in (IF draw THEN RandPhaseVector(n2 - 1) ELSE {rfiV[1]}) :
           /\ rfiV' = <<r>>
           /\ draws' = IF draw THEN Append(draws, <<"rand", n2 - 1>>) ELSE draws
           /\ usedPhase' = Append(usedPhase, r)
           /\ IF (n2 + 1) \notin DOMAIN fiV
              THEN \* line 96: fiV[n2+1] out of bounds
                   /\ nfiV' = Concat(Single(0), r)
                   /\ tmpV' = tmpV
                   /\ pc' = "raised"
                   /\ err' = "IndexError"
              ELSE /\ nfiV' = NewPhase(r, fiV, n2)
                   /\ tmpV' = NewMagnitude(magnV, n2)
                   /\ pc' = "a_ifft"
                   /\ err' = err
  /\ UNCHANGED <<fn, xV, xShape, flag, ii, lst, zM, oxV, magnV, fiV,
                 yftV, iyftV, ret, retShape>>

\* line 100: back to the time domain.  The spectra are dead afterwards.
AAFT_Inverse ==
  /\ pc = "a_ifft"
  /\ \E y \in InverseSeries(tmpV, xShape[1]) :
       yftV' = y
  /\ pc' = "a_rank"
  /\ magnV' = EmptyArr
  /\ fiV' = EmptyArr
  /\ nfiV' = EmptyArr
  /\ tmpV' = EmptyArr
  /\ UNCHANGED <<fn, xV, xShape, flag, ii, lst, zM, rfiV, usedPhase, oxV,
                 iyftV, ret, retShape, err, draws>>

\* lines 104-106: the ranks of the phase-randomized series and the original
\* amplitudes in that order
AAFT_Rank ==
  /\ pc = "a_rank"
  /\ \E T2 \in ArgsortResults(yftV) :
       /\ iyftV' = RankOf(T2)
       /\ zM' = SetColumn(zM, ii, ImposeAmplitudes(oxV, RankOf(T2)))
  /\ pc' = "a_end"
  /\ UNCHANGED <<fn, xV, xShape, flag, ii, lst, rfiV, usedPhase, oxV, magnV,
                 fiV, nfiV, tmpV, yftV, ret, retShape, err, draws>>

\* line 73: the loop takes the next channel.  What the body computed for the
\* channel before is dead: every one of these names is assigned before it is
\* read again.
AAFT_NextChannel ==
  /\ pc = "a_end"
  /\ ii' = ii + 1
  /\ pc' = "a_loop"
  /\ oxV' = EmptyArr
  /\ yftV' = EmptyArr
  /\ iyftV' = EmptyArr
  /\ UNCHANGED <<fn, xV, xShape, flag, lst, zM, rfiV, usedPhase, magnV, fiV,
                 nfiV, tmpV, ret, retShape, err, draws>>

\* line 108: return zM
AAFT_Return ==
  /\ pc = "a_loop"
  /\ ii = NumItems
  /\ ret' = zM
  /\ retShape' = xShape
  /\ pc' = "returned"
  /\ UNCHANGED <<fn, xV, xShape, flag, ii, lst, zM, rfiV, usedPhase,
                 channelLocals, err, draws>>

\* the call is over (a value or an exception reached the caller): its frame
\* is dropped.  rfiV is left as it is: line 71 is what gives the next call
\* an empty one.
Finish ==
  /\ pc \in {"returned", "raised"}
  /\ pc' = "idle"
  /\ fn' = "none"
  /\ xV' = EmptyArr
  /\ xShape' = <<>>
  /\ flag' = FALSE
  /\ ii' = 0
  /\ lst' = EmptyArr
  /\ zM' = EmptyArr
  /\ usedPhase' = <<>>
  /\ oxV' = EmptyArr
  /\ magnV' = EmptyArr
  /\ fiV' = EmptyArr
  /\ nfiV' = EmptyArr
  /\ tmpV' = EmptyArr
  /\ yftV' = EmptyArr
  /\ iyftV' = EmptyArr
  /\ ret' = EmptyArr
  /\ retShape' = <<>>
  /\ err' = "none"
  /\ draws' = <<>>
  /\ UNCHANGED rfiV

Next ==
  \/ CallUniform
  \/ US_Shape
  \/ US_Fixed
  \/ US_FreeDraw
  \/ US_FreeReturn
  \/ CallAAFT
  \/ AAFT_Forward
  \/ AAFT_Phase
  \/ AAFT_Inverse
  \/ AAFT_Rank
  \/ AAFT_NextChannel
  \/ AAFT_Return
  \/ Finish

Spec == Init /\ [][Next]_vars

\* ------------------------------------------------------------- properties
IsUniform == fn = "uniform_shuffle"

IsAAFT == fn = "fourier_constrained_shuffle"

Ended == pc \in {"returned", "raised"}

\* the values of a, each as often as a has it
Count(a, v) == Cardinality({k \in DOMAIN a : a[k] = v})

SameMultiset(a, b) ==
  /\ DOMAIN a = DOMAIN b
  /\ \A k \in DOMAIN a : Count(a, a[k]) = Count(b, a[k])

\* ret is a matrix of the shape of xV
RetHasInputShape ==
  /\ retShape = xShape
  /\ DOMAIN ret = 0..(xShape[1] - 1)
  /\ \A i \in DOMAIN ret : DOMAIN ret[i] = 0..(xShape[2] - 1)

PhaseDraws == Cardinality({k \in 1..Len(draws) : draws[k][1] = "rand"})

\* C1: uniform_shuffle with fixed_order=True on T >= 1 rows and N columns
\* never raises, and what it returns has the shape (T, N) and is the input
\* with its rows reordered by one permutation, the same for every channel;
\* for T = 1 it is the input.
C1_FixedOrderRowPermutation ==
  (IsUniform /\ flag /\ ndim = 2 /\ xShape[1] >= 1) =>
    /\ pc # "raised"
    /\ pc = "returned" =>
         /\ RetHasInputShape
         /\ \E p \in Permutations(0..(xShape[1] - 1)) :
              \A i \in 0..(xShape[1] - 1), j \in 0..(xShape[2] - 1) :
                ret[i][j] = xV[p[i]][j]
         /\ xShape[1] = 1 => ret = xV

C1_Witness ==
  /\ IsUniform /\ flag /\ pc = "returned"
  /\ xShape = <<4, 2>>
  /\ ret # xV
  /\ xV[0][0] # xV[0][1]

\* C2: uniform_shuffle with fixed_order=False on T >= 1 rows and N >= 1
\* columns never raises and draws one permutation per channel; what it
\* returns has the shape (T, N) and every channel of it is the same channel
\* of the input reordered by a permutation, so it has the same values as
\* often.
C2_FreeOrderChannelPermutations ==
  (IsUniform /\ ~flag /\ ndim = 2 /\ xShape[1] >= 1 /\ xShape[2] >= 1) =>
    /\ pc # "raised"
    /\ pc = "returned" =>
         /\ RetHasInputShape
         /\ Len(draws) = xShape[2]
         /\ \A j \in 0..(xShape[2] - 1) :
              /\ \E p \in Permutations(0..(xShape[1] - 1)) :
                   \A i \in 0..(xShape[1] - 1) : ret[i][j] = xV[p[i]][j]
              /\ SameMultiset(Column(ret, xShape[1], j), Column(xV, xShape[1], j))

C2_Witness ==
  /\ IsUniform /\ ~flag /\ pc = "returned"
  /\ xShape = <<4, 2>>
  /\ xV[0][0] = 10 /\ xV[0][1] = 10
  /\ Column(ret, 4, 0) # Column(ret, 4, 1)
  /\ Column(ret, 4, 0) # Column(xV, 4, 0)

\* C3: fourier_constrained_shuffle on T >= 4 rows and N >= 1 columns never
\* raises, whatever is drawn, and what it returns has the shape (T, N) and
\* in every channel the values of that channel of the input, each as often.
C3_AAFTChannelsArePermutations ==
  (IsAAFT /\ ndim = 2 /\ xShape[1] >= 4 /\ xShape[2] >= 1) =>
    /\ pc # "raised"
    /\ pc = "returned" =>
         /\ RetHasInputShape
         /\ \A j \in 0..(xShape[2] - 1) :
              SameMultiset(Column(ret, xShape[1], j), Column(xV, xShape[1], j))

C3_Witness ==
  /\ IsAAFT /\ pc = "returned"
  /\ xShape = <<4, 2>>
  /\ Column(xV, 4, 0) = Column(xV, 4, 1)
  /\ xV[0][0] = 0
  /\ Column(ret, 4, 0) # Column(ret, 4, 1)
  /\ Column(ret, 4, 1) # Column(xV, 4, 1)

\* C4: a call of fourier_constrained_shuffle starts without a free-phase
\* vector.  With fixed_phase=True the vector is drawn once, as the second draw
\* of the call (while the first channel is processed), is not assigned again,
\* and is the one every channel uses; with fixed_phase=False every channel
\* that reaches line 90 draws one.  The new phase spectrum of a channel holds
\* the vector the channel used in its bins 1..n2-1.
C4_SharedPhaseDrawnOnce ==
  IsAAFT =>
    /\ (pc = "a_loop" /\ ii = 0) => (rfiV = None /\ usedPhase = <<>>)
    /\ (pc \in {"a_loop", "a_phase"}) => Len(usedPhase) = ii
    /\ (pc \in {"a_ifft", "a_rank", "a_end"}) => Len(usedPhase) = ii + 1
    /\ usedPhase = <<>> => PhaseDraws = 0
    /\ (flag /\ usedPhase # <<>>) =>
         /\ PhaseDraws = 1
         /\ draws[2][1] = "rand"
         /\ rfiV = <<usedPhase[1]>>
         /\ \A k \in 1..Len(usedPhase) : usedPhase[k] = usedPhase[1]
    /\ ~flag => PhaseDraws = Len(usedPhase)
    /\ pc = "a_ifft" =>
         \A k \in 1..((xShape[1] \div 2) - 1) :
           nfiV[k] = usedPhase[Len(usedPhase)][k - 1]

C4_Witness ==
  /\ IsAAFT /\ flag /\ pc = "a_ifft"
  /\ Len(usedPhase) = 2
  /\ nfiV[1] = 3

\* C5: fourier_constrained_shuffle on 1, 2 or 3 rows (and at least one
\* channel) ends with an error of kind InsufficientSamples, raised before a
\* channel is processed (before anything is drawn).
C5_InsufficientSamplesRaised ==
  (IsAAFT /\ ndim = 2 /\ xShape[1] \in 1..3 /\ xShape[2] >= 1 /\ Ended) =>
    /\ pc = "raised"
    /\ err = "InsufficientSamples"
    /\ draws = <<>>

\* C6: both functions, on an input that is not two-dimensional or has no
\* rows or no columns, end with an error of kind InvalidInputShape and
\* return nothing.
C6_InvalidInputShapeRaised ==
  ((IsUniform \/ IsAAFT) /\ Ended
     /\ (ndim # 2 \/ xShape[1] = 0 \/ xShape[2] = 0)) =>
    /\ pc = "raised"
    /\ err = "InvalidInputShape"

\* C7: for a channel of length n >= 4, bin n2 of the new phase spectrum is
\* the phase of bin n2 of the forward transform.
C7_NyquistPhasePreserved ==
  (IsAAFT /\ pc = "a_ifft" /\ xShape[1] >= 4) =>
    nfiV[xShape[1] \div 2] = fiV[xShape[1] \div 2]

C9_OutputFollowsRanks ==
  (IsAAFT /\ pc = "a_end" /\ xShape[1] >= 4) =>
    LET n == xShape[1]
        s == Sort(Column(xV, n, ii))
        out == Column(zM, n, ii)
    IN  /\ DOMAIN iyftV = 0..(n - 1)
        /\ \A k \in 0..(n - 1) : \E i \in 0..(n - 1) : iyftV[i] = k
        /\ \A i, j \in 0..(n - 1) :
             yftV[i] < yftV[j] => (iyftV[i] < iyftV[j] /\ out[i] <= out[j])
        /\ \A i \in 0..(n - 1) :
             /\ out[i] = s[iyftV[i]]
             /\ iyftV[i] = 0 =>
                  /\ \A j \in 0..(n - 1) : yftV[i] <= yftV[j] /\ out[i] <= xV[j][ii]
             /\ iyftV[i] = n - 1 =>
                  /\ \A j \in 0..(n - 1) : yftV[j] <= yftV[i] /\ xV[j][ii] <= out[i]

C9_Witness ==
  /\ IsAAFT /\ pc = "a_end"
  /\ xShape[1] = 4
  /\ xV[0][ii] = 10
  /\ yftV[0] = 2 /\ yftV[1] = 3 /\ yftV[2] = 0 /\ yftV[3] = 1
  /\ zM[2][ii] = 1 /\ zM[1][ii] = 12

\* what C10 says one successful call draws, in order
ExpectedDraws ==
  LET T  == xShape[1]
      N  == xShape[2]
      n2 == T \div 2
  IN  IF IsUniform
      THEN [k \in 1..(IF flag THEN 1 ELSE N) |-> <<"permutation", T>>]
      ELSE IF flag
           THEN [k \in 1..(N + 1) |->
                   IF k = 2 THEN <<"rand", n2 - 1>> ELSE <<"randn", T>>]
           ELSE [k \in 1..(2 * N) |->
                   IF k % 2 = 1 THEN <<"randn", T>> ELSE <<"rand", n2 - 1>>]

\* C10: a call on a (T, N) matrix with N >= 1 that returns has drawn:
\* fourier_constrained_shuffle with fixed_phase=False, for every channel in
\* turn a Gaussian series of length T and then a free-phase vector; with
\* fixed_phase=True the same without the free-phase vectors of the channels
\* after the first; uniform_shuffle one permutation of length T with
\* fixed_order=True and N of them with fixed_order=False; and nothing else.
C10_DrawsOfOneCall ==
  ((IsUniform \/ IsAAFT) /\ pc = "returned" /\ ndim = 2 /\ xShape[2] >= 1) =>
    draws = ExpectedDraws

C10_Witness ==
  /\ IsAAFT /\ flag /\ pc = "returned"
  /\ xShape = <<4, 2>>
  /\ Len(draws) = 3

====
